---- MODULE Spec2Model ----
(***************************************************************************)
(* Model of object-locator/utils.py: RunningAverage, AccBetaMixtureModel,  *)
(* threshold and cluster.  Each component has its own specification; the   *)
(* variables of the other components stay at their initial values.         *)
(*                                                                         *)
(* Real numbers are kept exact: a rational is a pair <<num, den>> with     *)
(* den > 0.  Floating-point rounding is not modelled.                      *)
(***************************************************************************)
EXTENDS Integers, Sequences, FiniteSets

(* ----------------------------- bounds ---------------------------------- *)
MaxSize == 3        \* largest RunningAverage capacity tried
MaxVal == 4         \* elements put into a RunningAverage are 1..MaxVal
MaxPuts == 4        \* number of put calls in one behaviour
MaxComponents == 2  \* largest n_components of an AccBetaMixtureModel
MaxFeed == 3        \* number of mixtures fed in one behaviour
MaxLen == 3         \* longest array given to threshold
Height == 2         \* rows of the mask given to cluster
Width == 2          \* columns of the mask given to cluster
MaxClusters == 3    \* largest n_clusters asked of cluster
MaxPts == 2         \* largest finite max_mask_pts given to cluster

VARIABLES
    \* RunningAverage
    list, size, history, pops, ra_out,
    \* AccBetaMixtureModel
    n_components, mixtures, acc_out,
    \* threshold
    array, th_out,
    \* cluster
    cl_array, n_clusters, max_mask_pts, cl_out

vars_ra == <<list, size, history, pops, ra_out>>
vars_acc == <<n_components, mixtures, acc_out>>
vars_th == <<array, th_out>>
vars_cl == <<cl_array, n_clusters, max_mask_pts, cl_out>>
vars == <<vars_ra, vars_acc, vars_th, vars_cl>>
not_ra == <<vars_acc, vars_th, vars_cl>>
not_acc == <<vars_ra, vars_th, vars_cl>>
not_th == <<vars_ra, vars_acc, vars_cl>>
not_cl == <<vars_ra, vars_acc, vars_th>>

(* --------------------------- helpers ----------------------------------- *)
RECURSIVE SumSeq(_)
SumSeq(s) == IF s = <<>> THEN 0 ELSE Head(s) + SumSeq(Tail(s))

Min2(a, b) == IF a <= b THEN a ELSE b
Max2(a, b) == IF a >= b THEN a ELSE b

(* ----------------------- initial outcomes ------------------------------ *)
NoOut == [op |-> "init", status |-> "ok", arg |-> <<>>, figs |-> {},
          pdf_means |-> <<>>, pdf_stdevs |-> <<>>]

NoThOut == [policy |-> "init", status |-> "ok", arg |-> <<0, 1>>,
            mask |-> <<>>, tau |-> <<0, 1>>, mixture |-> <<>>, fit |-> <<>>,
            array_scaled |-> <<>>, split |-> 0]

Pixels == (0..(Height - 1)) \X (0..(Width - 1))

NoClOut == [status |-> "init", fitted |-> FALSE, n_components |-> 0,
            n_fit_pts |-> 0, n_centroids |-> 0]

(* =========================== RunningAverage ============================ *)
\* ra_out is the outcome of the last call: <<operation, status, num, den>>.
\* history (every value put, in order) and pops (successful pop calls) are
\* history variables; the program does not read them.

\* put with the capacity test off by one (> for >=)
put_offbyone(elem) ==
    /\ Len(history) < MaxPuts
    /\ list' = IF Len(list) > size /\ list # <<>>
               THEN Append(Tail(list), elem) ELSE Append(list, elem)
    /\ history' = Append(history, elem)
    /\ ra_out' = <<"put", "ok", 0, 1>>
    /\ UNCHANGED <<size, pops, not_ra>>

\* put: list.pop(0) raises IndexError on an empty list (only when size <= 0),
\* and then nothing is appended.
put(elem) ==
    /\ Len(history) < MaxPuts
    /\ IF Len(list) >= size
       THEN IF list = <<>>
            THEN /\ ra_out' = <<"put", "IndexError", 0, 1>>
                 /\ UNCHANGED <<list, history>>
            ELSE /\ list' = Append(Tail(list), elem)
                 /\ history' = Append(history, elem)
                 /\ ra_out' = <<"put", "ok", 0, 1>>
       ELSE /\ list' = Append(list, elem)
            /\ history' = Append(history, elem)
            /\ ra_out' = <<"put", "ok", 0, 1>>
    /\ UNCHANGED <<size, pops, not_ra>>

pop ==
    /\ IF list = <<>>
       THEN /\ ra_out' = <<"pop", "IndexError", 0, 1>>
            /\ UNCHANGED <<list, pops>>
       ELSE /\ list' = Tail(list)
            /\ pops' = pops + 1
            /\ ra_out' = <<"pop", "ok", 0, 1>>
    /\ UNCHANGED <<size, history, not_ra>>

\* np.average of an empty list is the mean of an empty array: numpy issues a
\* RuntimeWarning and returns nan, it does not raise.
avg ==
    /\ ra_out' = IF list = <<>>
                 THEN <<"avg", "nan", 0, 1>>
                 ELSE <<"avg", "ok", SumSeq(list), Len(list)>>
    /\ UNCHANGED <<list, size, history, pops, not_ra>>

\* RunningAverage(size); the other components are not used.
InitRA ==
    /\ list = <<>>
    /\ size \in 0..MaxSize
    /\ history = <<>>
    /\ pops = 0
    /\ ra_out = <<"init", "ok", 0, 1>>
    /\ n_components = 2
    /\ mixtures = <<>>
    /\ acc_out = NoOut
    /\ array = <<0>>
    /\ th_out = NoThOut
    /\ cl_array = [p \in Pixels |-> 0]
    /\ n_clusters = 1
    /\ max_mask_pts = [inf |-> TRUE, n |-> 0]
    /\ cl_out = NoClOut

RANext ==
    \/ \E elem \in 1..MaxVal : put(elem)
    \/ pop
    \/ avg

SpecRA == InitRA /\ [][RANext]_vars

(* ========================= AccBetaMixtureModel ========================= *)
\* A distribution is a frozen scipy.stats.beta(a, b), kept as <<a, b>>.
\* A mixture is a tuple of components <<rv, weight>>.
\* acc_out is the outcome of the last call.

RVs == {<<1, 1>>, <<1, 60>>}
Weights == {<<1, 2>>}
Component == RVs \X Weights

\* self.x = np.linspace(0, 1, n_pts): the two end points, which every grid
\* with n_pts >= 2 contains.
x == <<0, 1>>

\* scipy.stats.beta(a, b).mean() = a / (a + b)
mean(rv) == <<rv[1], rv[1] + rv[2]>>

\* scipy.stats.beta(a, b).pdf at the end points of the support, for integer
\* a, b >= 1: x^(a-1) (1-x)^(b-1) / B(a, b) is b at 0 when a = 1, a at 1 when
\* b = 1, and 0 otherwise.
pdf(rv, pt) ==
    IF pt = 0 THEN (IF rv[1] = 1 THEN rv[2] ELSE 0)
    ELSE (IF rv[2] = 1 THEN rv[1] ELSE 0)

\* np.clip(v, a_min=0, a_max=50)
clip(v) == Max2(0, Min2(v, 50))

\* feed without the length assertion
feed_unchecked(mixture) ==
    /\ Len(mixtures) < MaxFeed
    /\ mixtures' = Append(mixtures, mixture)
    /\ acc_out' = [NoOut EXCEPT !.op = "feed", !.arg = mixture]
    /\ UNCHANGED <<n_components, not_acc>>

feed(mixture) ==
    /\ Len(mixtures) < MaxFeed
    /\ IF Len(mixture) = n_components
       THEN /\ mixtures' = Append(mixtures, mixture)
            /\ acc_out' = [NoOut EXCEPT !.op = "feed", !.arg = mixture]
       ELSE /\ mixtures' = mixtures
            /\ acc_out' = [NoOut EXCEPT !.op = "feed", !.arg = mixture,
                                        !.status = "AssertionError"]
    /\ UNCHANGED <<n_components, not_acc>>

\* Sum over the fed mixtures of the clamped density of component c at grid
\* point g.
RECURSIVE ClipSum(_, _, _)
ClipSum(mixs, c, g) ==
    IF mixs = <<>> THEN 0
    ELSE clip(pdf(Head(mixs)[c][1], x[g])) + ClipSum(Tail(mixs), c, g)

\* pdf_means[c] at grid point g: sum of (1/N) * clip(pdf), as the rational
\* <<sum, N>>.
PdfMean(mixs, c, g) == <<ClipSum(mixs, c, g), Len(mixs)>>

\* pdfs_sq_err_sum[c] at grid point g, times N^2:
\* sum of (clip(pdf) - mean)^2 = sum of (N * clip(pdf) - sum)^2 / N^2.
RECURSIVE SqErrSumN2(_, _, _, _, _)
SqErrSumN2(mixs, c, g, n, total) ==
    IF mixs = <<>> THEN 0
    ELSE LET d == n * clip(pdf(Head(mixs)[c][1], x[g])) - total
         IN  d * d + SqErrSumN2(Tail(mixs), c, g, n, total)

\* pdf_stdevs[c] at grid point g is np.sqrt(pdf_sq_err_sum) / (N - 1).  The
\* model keeps its square, sq_err_sum / (N - 1)^2, as a rational.
PdfStdevSq(mixs, c, g) ==
    LET n == Len(mixs)
    IN  <<SqErrSumN2(mixs, c, g, n, ClipSum(mixs, c, g)),
          n * n * (n - 1) * (n - 1)>>

\* thresholds = [mix[-1][0].mean() for mix in self.mixtures]
thresholds(mixs) == [i \in 1..Len(mixs) |-> mean(mixs[i][Len(mixs[i])][1])]

RatEq(p, q) == p[1] * q[2] = q[1] * p[2]

\* scipy.stats.gaussian_kde inverts the covariance of its data set and raises
\* LinAlgError when that covariance is singular, i.e. when all the
\* thresholds are equal.
KdeSingular(ths) == \A i, j \in DOMAIN ths : RatEq(ths[i], ths[j])

plot ==
    /\ IF Len(mixtures) = 0
       THEN acc_out' = [NoOut EXCEPT !.op = "plot", !.status = "AssertionError"]
       ELSE LET n == Len(mixtures)
                means == [c \in 1..n_components |->
                            [g \in DOMAIN x |-> PdfMean(mixtures, c, g)]]
                stdevs == [c \in 1..n_components |->
                            [g \in DOMAIN x |-> PdfStdevSq(mixtures, c, g)]]
            IN  IF n > 1
                THEN IF KdeSingular(thresholds(mixtures))
                     THEN acc_out' = [NoOut EXCEPT !.op = "plot",
                                                   !.status = "LinAlgError"]
                     ELSE acc_out' = [NoOut EXCEPT !.op = "plot",
                               !.figs = {"mean_bmm", "std_bmm", "kde_bmm_threshold"},
                               !.pdf_means = means, !.pdf_stdevs = stdevs]
                ELSE acc_out' = [NoOut EXCEPT !.op = "plot",
                               !.figs = {"mean_bmm"}, !.pdf_means = means]
    /\ UNCHANGED <<n_components, mixtures, not_acc>>

\* AccBetaMixtureModel(n_components); the other components are not used.
InitAcc ==
    /\ list = <<>>
    /\ size = 1
    /\ history = <<>>
    /\ pops = 0
    /\ ra_out = <<"init", "ok", 0, 1>>
    /\ n_components \in 1..MaxComponents
    /\ mixtures = <<>>
    /\ acc_out = NoOut
    /\ array = <<0>>
    /\ th_out = NoThOut
    /\ cl_array = [p \in Pixels |-> 0]
    /\ n_clusters = 1
    /\ max_mask_pts = [inf |-> TRUE, n |-> 0]
    /\ cl_out = NoClOut

AccNext ==
    \/ \E len \in 0..(MaxComponents + 1) :
          \E mixture \in [1..len -> Component] : feed(mixture)
    \/ plot

SpecAcc == InitAcc /\ [][AccNext]_vars

(* ============================== threshold ============================== *)
\* array is the flattened input (element values are integers), tau a rational
\* <<num, den>>.  th_out is what the call returned; fit, array_scaled and
\* split are the locals of the call that the properties refer to.

ArrayVals == {-1, 0, 1, 2}
Arrays == UNION {[1..n -> ArrayVals] : n \in 1..MaxLen}
FixedTaus == {<<-3, 1>>, <<0, 1>>, <<1, 2>>, <<1, 1>>, <<2, 1>>}
Taus == FixedTaus \cup {<<-1, 1>>, <<-2, 1>>}

RatLe(p, q) == p[1] * q[2] <= q[1] * p[2]

SeqMin(arr) == CHOOSE m \in {arr[i] : i \in DOMAIN arr} :
                  \A i \in DOMAIN arr : m <= arr[i]
SeqMax(arr) == CHOOSE m \in {arr[i] : i \in DOMAIN arr} :
                  \A i \in DOMAIN arr : m >= arr[i]

\* cv2.inRange(array, lo, hi): 255 where lo <= array[i] <= hi, 0 elsewhere.
\* lo is a rational, hi an integer.
inRange(arr, lo, hi) ==
    [i \in DOMAIN arr |->
        IF RatLe(lo, <<arr[i], 1>>) /\ arr[i] <= hi THEN 255 ELSE 0]

\* np.round of num / den (den > 0, num >= 0): to nearest, halves to even.
RoundHalfEven(num, den) ==
    LET q == num \div den
        r == num % den
    IN  IF 2 * r < den THEN q
        ELSE IF 2 * r > den THEN q + 1
        ELSE IF q % 2 = 0 THEN q ELSE q + 1

\* ((array - minn)/(maxx - minn)*255).round().astype(np.uint8).  For a
\* constant array the quotient is 0/0 = nan, whose conversion to uint8 is
\* undefined: every element then gets the same, arbitrary, byte.
ArrayScaled(arr) ==
    LET minn == SeqMin(arr)
        maxx == SeqMax(arr)
    IN  IF maxx = minn
        THEN {[i \in DOMAIN arr |-> k] : k \in 0..255}
        ELSE {[i \in DOMAIN arr |->
                  RoundHalfEven((arr[i] - minn) * 255, maxx - minn)]}

\* Otsu's between-class variance of the split "<= i | > i" of the 8-bit
\* values sc, as the rational <<num, den>>:
\* q1*q2*(mu1 - mu2)^2 = (s1*n2 - s2*n1)^2 / (n^2 * n1 * n2).
\* The common factor n^2 is left out.
OtsuSigma(sc, i) ==
    LET lo == {k \in DOMAIN sc : sc[k] <= i}
        n1 == Cardinality(lo)
        n2 == Len(sc) - n1
        s1 == SumSeq([k \in DOMAIN sc |-> IF sc[k] <= i THEN sc[k] ELSE 0])
        s2 == SumSeq(sc) - s1
    IN  <<(s1 * n2 - s2 * n1) * (s1 * n2 - s2 * n1), n1 * n2>>

\* The splits cv2.threshold(..., THRESH_OTSU) can select: a split with both
\* classes non-empty that maximises the between-class variance, 0 when there
\* is none.  The variance only changes at the values that occur in sc, so it
\* is evaluated there (reps); every split up to the next occurring value
\* gives the same two classes.  Splits with the same exact variance differ
\* only by rounding in the library's running sums, so each of them is a
\* possible result.
OtsuSplits(sc) ==
    LET vals == {sc[k] : k \in DOMAIN sc}
        reps == {v \in vals : \E w \in vals : w > v}
        sig == [v \in reps |-> OtsuSigma(sc, v)]
        best == {v \in reps :
                    \A w \in reps : sig[w][1] * sig[v][2] <= sig[v][1] * sig[w][2]}
    IN  IF reps = {} THEN {0}
        ELSE {i \in 0..255 :
                \E v \in best : v <= i /\ \A w \in vals : w > v => w > i}

\* THRESH_BINARY with a reversed comparison (>= for >)
ThreshBinary_ge(sc, thresh, maxval) ==
    [i \in DOMAIN sc |-> IF sc[i] >= thresh THEN maxval ELSE 0]

\* cv2.threshold(src, thresh, maxval, THRESH_BINARY): maxval where
\* src > thresh, 0 elsewhere.
ThreshBinary(sc, thresh, maxval) ==
    [i \in DOMAIN sc |-> IF sc[i] > thresh THEN maxval ELSE 0]

\* tau = minn + (tau/255)*(maxx - minn)
OtsuTau(arr, split) ==
    <<255 * SeqMin(arr) + split * (SeqMax(arr) - SeqMin(arr)), 255>>

\* bmm.estimate(array_flat, [0, 1]): the fitted shape parameters and weights
\* of the two components, in the fitter's order.
Estimate(arr) ==
    {<<<<rv1, rv2>>, pis>> : rv1 \in RVs, rv2 \in RVs,
                             pis \in {<<<<1, 2>>, <<1, 2>>>>, <<<<3, 4>>, <<1, 4>>>>}}

\* the threshold taken from the component with the larger mean
MixtureTau_larger(rv1, rv2) ==
    IF RatLe(mean(rv2), mean(rv1)) THEN mean(rv1) ELSE mean(rv2)

\* tau = rv2.mean()
MixtureTau(rv1, rv2) == mean(rv2)

threshold(tau) ==
    /\ th_out.policy = "init"
    /\ IF tau[1] = -1 * tau[2]
       THEN \E sc \in ArrayScaled(array) : \E split \in OtsuSplits(sc) :
               th_out' = [NoThOut EXCEPT !.policy = "otsu", !.arg = tau,
                             !.array_scaled = sc, !.split = split,
                             !.mask = ThreshBinary(sc, split, 255),
                             !.tau = OtsuTau(array, split)]
       ELSE IF tau[1] = -2 * tau[2]
       THEN \/ \E fit \in Estimate(array) :
                 LET rv1 == fit[1][1]
                     rv2 == fit[1][2]
                     t == MixtureTau(rv1, rv2)
                 IN  th_out' = [NoThOut EXCEPT !.policy = "mixture", !.arg = tau,
                                  !.fit = fit, !.tau = t,
                                  !.mask = inRange(array, t, 1),
                                  !.mixture = <<<<rv1, fit[2][1]>>,
                                                <<rv2, fit[2][2]>>>>]
            \/ th_out' = [NoThOut EXCEPT !.policy = "mixture", !.arg = tau,
                                         !.status = "DegenerateFitError"]
       ELSE th_out' = [NoThOut EXCEPT !.policy = "fixed", !.arg = tau,
                                      !.tau = tau,
                                      !.mask = inRange(array, tau, 1)]
    /\ UNCHANGED <<array, not_th>>

\* The array given to threshold; the other components are not used.
InitTh ==
    /\ list = <<>>
    /\ size = 1
    /\ history = <<>>
    /\ pops = 0
    /\ ra_out = <<"init", "ok", 0, 1>>
    /\ n_components = 2
    /\ mixtures = <<>>
    /\ acc_out = NoOut
    /\ array \in Arrays
    /\ th_out = NoThOut
    /\ cl_array = [p \in Pixels |-> 0]
    /\ n_clusters = 1
    /\ max_mask_pts = [inf |-> TRUE, n |-> 0]
    /\ cl_out = NoClOut

ThNext == \E tau \in Taus : threshold(tau)

SpecTh == InitTh /\ [][ThNext]_vars

(* =============================== cluster =============================== *)
\* cl_array is the 2-D mask, max_mask_pts is np.infty (inf) or the number n.
\* cl_out is the outcome of the call: whether GaussianMixture.fit was
\* called, with how many components and points, and how many centroids
\* (rows of means_) were returned.

MaskVals == {-1, 0, 255}

\* np.where with the comparison >= for >
Coord_ge(arr) == {p \in Pixels : arr[p] >= 0}

\* coord = np.where(array > 0); c = the (y, x) rows
Coord(arr) == {p \in Pixels : arr[p] > 0}

\* np.random.shuffle(c); c = c[:n_pts] with n_pts = min(len(c), max_mask_pts):
\* any n_pts of the points.  Without a finite max_mask_pts c is left alone.
Subsample(c, mmp) ==
    IF mmp.inf THEN {c}
    ELSE {sub \in SUBSET c : Cardinality(sub) = Min2(Cardinality(c), mmp.n)}

\* n_components = max(min(n_clusters, x.size), 1), where x holds the
\* coordinates of all the foreground pixels (before subsampling)
NComponents(ncl, x_size) == Max2(Min2(ncl, x_size), 1)

\* GaussianMixture(n_components).fit(c) raises ValueError when c has fewer
\* rows than n_components (or none); otherwise means_ has n_components rows.
cluster ==
    /\ cl_out.status = "init"
    /\ LET c == Coord(cl_array)
       IN  IF Cardinality(c) = 0
           THEN cl_out' = [NoClOut EXCEPT !.status = "ok"]
           ELSE \E sub \in Subsample(c, max_mask_pts) :
                  LET ncomp == NComponents(n_clusters, Cardinality(c))
                  IN  IF ncomp > Cardinality(sub)
                      THEN cl_out' = [NoClOut EXCEPT !.status = "ValueError",
                                        !.fitted = TRUE, !.n_components = ncomp,
                                        !.n_fit_pts = Cardinality(sub)]
                      ELSE cl_out' = [NoClOut EXCEPT !.status = "ok",
                                        !.fitted = TRUE, !.n_components = ncomp,
                                        !.n_fit_pts = Cardinality(sub),
                                        !.n_centroids = ncomp]
    /\ UNCHANGED <<cl_array, n_clusters, max_mask_pts, not_cl>>

\* The arguments given to cluster; the other components are not used.
InitCl ==
    /\ list = <<>>
    /\ size = 1
    /\ history = <<>>
    /\ pops = 0
    /\ ra_out = <<"init", "ok", 0, 1>>
    /\ n_components = 2
    /\ mixtures = <<>>
    /\ acc_out = NoOut
    /\ array = <<0>>
    /\ th_out = NoThOut
    /\ cl_array \in [Pixels -> MaskVals]
    /\ n_clusters \in 0..MaxClusters
    /\ max_mask_pts \in {[inf |-> TRUE, n |-> 0]}
                           \cup {[inf |-> FALSE, n |-> k] : k \in 1..MaxPts}
    /\ cl_out = NoClOut

ClNext == cluster

SpecCl == InitCl /\ [][ClNext]_vars

(* ============================ properties =============================== *)
IsPrefix(s, t) == Len(s) <= Len(t) /\ SubSeq(t, 1, Len(s)) = s

\* C2: for a RunningAverage of capacity size >= 1 the held list never has
\* more than size elements and is the run of the most recently put values, in
\* insertion order; with puts only it is the last min(k, size) of the k
\* values put, and size = 3 with put(1), put(2), put(3), put(4) leaves
\* [2, 3, 4], whose avg is 3.
C2_WindowIsRecentRun ==
    size >= 1 =>
        /\ Len(list) <= size
        /\ Len(list) <= Len(history)
        /\ list = SubSeq(history, Len(history) - Len(list) + 1, Len(history))
        /\ (pops = 0 => Len(list) = Min2(Len(history), size))
        /\ (size = 3 /\ history = <<1, 2, 3, 4>> /\ pops = 0 =>
                /\ list = <<2, 3, 4>>
                /\ (ra_out[1] = "avg" =>
                        ra_out[2] = "ok" /\ ra_out[3] = 3 * ra_out[4]))

C2_Witness ==
    /\ size = 3 /\ history = <<1, 2, 3, 4>> /\ pops = 0
    /\ list = <<2, 3, 4>>
    /\ ra_out = <<"avg", "ok", 9, 3>>

\* C7: pop and avg on a RunningAverage that holds no elements both fail
\* (raise) instead of returning a value, and the window stays empty.
C7_EmptyOpsFail ==
    [][(list = <<>> /\ ra_out'[1] \in {"pop", "avg"}) =>
          (ra_out'[2] \notin {"ok", "nan"} /\ list' = <<>>)]_vars

\* C5: the sequence of mixtures is append-only.  A feed of a mixture of
\* length n_components appends exactly that mixture, a feed of any other
\* length fails and changes nothing, plot changes nothing, and every entry
\* has n_components components.
C5_AppendOnly ==
    [][/\ IsPrefix(mixtures, mixtures')
       /\ \A i \in 1..Len(mixtures') : Len(mixtures'[i]) = n_components
       /\ (acc_out'.op = "feed" /\ Len(acc_out'.arg) = n_components =>
              acc_out'.status = "ok" /\ mixtures' = Append(mixtures, acc_out'.arg))
       /\ (acc_out'.op = "feed" /\ Len(acc_out'.arg) # n_components =>
              acc_out'.status = "AssertionError" /\ mixtures' = mixtures)
       /\ (acc_out'.op = "plot" => mixtures' = mixtures)]_vars

C5_Witness ==
    /\ Len(mixtures) >= 2
    /\ acc_out.op = "feed"
    /\ acc_out.status = "AssertionError"
    /\ Len(acc_out.arg) = n_components + 1

\* C6: plot fails when no mixture has been fed; with exactly one fed mixture
\* it succeeds with the mean-density result only; it yields the standard
\* deviation and threshold-KDE results if and only if at least two mixtures
\* have been fed.
C6_PlotOutputs ==
    acc_out.op = "plot" =>
        /\ (Len(mixtures) = 0 => acc_out.status # "ok")
        /\ (Len(mixtures) = 1 =>
               acc_out.status = "ok" /\ acc_out.figs = {"mean_bmm"})
        /\ ({"std_bmm", "kde_bmm_threshold"} \subseteq acc_out.figs
               <=> Len(mixtures) >= 2)

\* The clamped densities of component c at grid point g, one per fed mixture.
ClampedDensities(c, g) ==
    [i \in 1..Len(mixtures) |-> clip(pdf(mixtures[i][c][1], x[g]))]

\* N^2 times the sum of the squared deviations of vals from their mean.
SumSqDevN2(vals) ==
    LET n == Len(vals)
        total == SumSeq(vals)
    IN  SumSeq([i \in 1..n |-> (n * vals[i] - total) * (n * vals[i] - total)])

\* C10: with N >= 2 fed mixtures the standard deviation that plot computes
\* for a component at a grid point is the sample standard deviation with
\* divisor N - 1: its square times (N - 1) is the sum of the squared
\* deviations of the N clamped densities from their mean.
C10_SampleStdev ==
    (acc_out.op = "plot" /\ acc_out.status = "ok" /\ Len(mixtures) >= 2) =>
        \A c \in 1..n_components : \A g \in DOMAIN x :
            LET n == Len(mixtures)
                sd == acc_out.pdf_stdevs[c][g]
            IN  sd[1] * (n - 1) * n * n
                  = SumSqDevN2(ClampedDensities(c, g)) * sd[2]

\* C1: with a fixed threshold t, element i of the mask is 1 if and only if
\* t <= array[i] <= 1, and t is returned unchanged.
C1_FixedMaskIsOne ==
    th_out.policy = "fixed" =>
        /\ th_out.tau = th_out.arg
        /\ \A i \in DOMAIN array :
              th_out.mask[i] = 1 <=>
                 (RatLe(th_out.tau, <<array[i], 1>>) /\ array[i] <= 1)

\* C8 as stated: with the Otsu policy on a non-constant array, element i of
\* the mask is positive if and only if returned_tau <= array[i] <= 1, where
\* returned_tau = min + (split/255)*(max - min).
C8_OtsuFixedStyle ==
    (th_out.policy = "otsu" /\ SeqMin(array) # SeqMax(array)) =>
        /\ RatEq(th_out.tau,
                 <<255 * SeqMin(array)
                     + th_out.split * (SeqMax(array) - SeqMin(array)), 255>>)
        /\ \A i \in DOMAIN array :
              th_out.mask[i] > 0 <=>
                 (RatLe(th_out.tau, <<array[i], 1>>) /\ array[i] <= 1)

\* y = 255 * (v - min) / (max - min), rounded to nearest (halves to even), is
\* strictly greater than the integer s.
LevelAbove(v, s) ==
    LET num == 2 * 255 * (v - SeqMin(array))
        den == SeqMax(array) - SeqMin(array)
    IN  \/ num > (2 * s + 1) * den
        \/ num = (2 * s + 1) * den /\ s % 2 = 1

\* C8 as amended: with the Otsu policy on a non-constant array, element i of
\* the mask is positive (255) if and only if array[i], rescaled to 0..255 and
\* rounded, is strictly greater than the Otsu split; no upper bound of 1 is
\* applied.  returned_tau = min + (split/255)*(max - min).
C8_OtsuMask ==
    (th_out.policy = "otsu" /\ SeqMin(array) # SeqMax(array)) =>
        /\ RatEq(th_out.tau,
                 <<255 * SeqMin(array)
                     + th_out.split * (SeqMax(array) - SeqMin(array)), 255>>)
        /\ th_out.split \in 0..254
        /\ \A i \in DOMAIN array :
              /\ th_out.mask[i] \in {0, 255}
              /\ th_out.mask[i] > 0 <=> LevelAbove(array[i], th_out.split)

C8_Witness ==
    /\ th_out.policy = "otsu"
    /\ SeqMin(array) # SeqMax(array)
    /\ \E i \in DOMAIN array : array[i] > 1 /\ th_out.mask[i] = 255
    /\ \E i \in DOMAIN array :
          /\ RatLe(th_out.tau, <<array[i], 1>>) /\ array[i] <= 1
          /\ th_out.mask[i] = 0

Nonzero(arr) == {p \in Pixels : arr[p] # 0}

\* C3: cluster never returns more centroids than the mask has nonzero
\* pixels; an all-zero mask yields no centroid and no model is fitted.
C3_CentroidsAtMostForeground ==
    /\ cl_out.status = "ok" =>
          cl_out.n_centroids <= Cardinality(Nonzero(cl_array))
    /\ (cl_out.status # "init" /\ Nonzero(cl_array) = {}) =>
          (cl_out.status = "ok" /\ cl_out.n_centroids = 0 /\ ~cl_out.fitted)

C3_Witness ==
    /\ cl_out.status = "ok"
    /\ cl_out.fitted
    /\ n_clusters > Cardinality(Nonzero(cl_array))
    /\ cl_out.n_centroids = Cardinality(Nonzero(cl_array))

\* C4: whenever cluster fits a Gaussian mixture, the number of components is
\* at least 1 and at most the number of points passed to the fit, also
\* after subsampling to max_mask_pts points.
C4_ComponentsAtMostPoints ==
    cl_out.fitted =>
        (1 <= cl_out.n_components /\ cl_out.n_components <= cl_out.n_fit_pts)

====
